---- MODULE Spec2Model ----
(***************************************************************************)
(* Model of the task store, the ordering policy and the reminder engine of *)
(* streamlit_agenda.py.                                                    *)
(*                                                                         *)
(* Time is counted in ticks; a calendar day has DayLen ticks.  A datetime  *)
(* is a tick number, its ISO text is the pair <<date, time-of-day>> (text  *)
(* order on ISO strings is the lexicographic order on that pair), and a    *)
(* date's ISO text is the one-element sequence <<date>>.  SQL NULL in the   *)
(* last_notified_date column is the empty sequence.                        *)
(***************************************************************************)
EXTENDS Integers, Sequences, FiniteSets, TLC

\* ---------------------------------------------------------------- bounds
DayLen == 2
MaxDay == 1
MaxWindow == 2
MaxTasks == 1
MaxOrderTasks == 3
MaxFires == 2
MaxAddClock == 1
MaxOrderClock == 2
MaxOrderDue == 1
MaxFrameTasks == 2
MaxFrameClock == 1
MaxCalls == 2
MaxStepTasks == 2
MaxRaceTasks == 1
MaxEvalTasks == 2
MaxSwapTasks == 3
MaxSwapClock == 2

MaxClock == (MaxDay + 1) * DayLen - 1
Ticks == 0..MaxClock
DueTimes == 1..MaxClock
Windows == 1..MaxWindow
Recurrences == {"once", "daily"}
Priorities == {1, 5}
Calls == 1..MaxCalls

\* ---------------------------------------------------------------- state
VARIABLES
    tasks,      \* the tasks table: rowid -> row
    nextId,     \* next AUTOINCREMENT rowid (rowids are never reused)
    clock,      \* the host clock, in ticks
    upcoming,   \* the sequence returned by the last check_due_tasks call
    lastOp,     \* history: the last operation applied and its arguments
    prevTasks,  \* history: the tasks table before the last swap_sort_index
    fires,      \* history: rowid -> number of events emitted for it (capped)
    dayFires,   \* history: rowid -> number of events emitted for it today
    alwaysOnce, \* history: rowid -> recurrence has been 'once' since creation
    raised,     \* history: the last operation raised an exception
    evals,      \* call -> the locals of that check_due_tasks call, run stepwise
    swaps       \* call -> the locals of that swap_sort_index call, run stepwise

vars == <<tasks, nextId, clock, upcoming, lastOp, prevTasks, fires, dayFires,
          alwaysOnce, raised, evals, swaps>>

\* ---------------------------------------------------------------- dates
None == -1
NULL == <<>>

DateOf(t) == t \div DayLen
TimeOf(t) == t % DayLen

\* datetime.isoformat(): "YYYY-MM-DDTHH:MM:SS"
isoformat(t) == <<DateOf(t), TimeOf(t)>>

\* date.isoformat(): "YYYY-MM-DD"
date_isoformat(d) == <<d>>

\* datetime.combine(date, time)
combine(d, tod) == d * DayLen + tod

\* parse_iso_or_flex: the datetime formats, then the date-only format
\* (midnight), else None
parse_iso_or_flex(s) ==
    IF Len(s) = 2 THEN combine(s[1], s[2])
    ELSE IF Len(s) = 1 THEN combine(s[1], 0)
    ELSE None

\* SQLite's comparison of two TEXT values
RECURSIVE TextLess(_, _)
TextLess(a, b) ==
    IF Len(b) = 0 THEN FALSE
    ELSE IF Len(a) = 0 THEN TRUE
    ELSE IF Head(a) # Head(b) THEN Head(a) < Head(b)
    ELSE TextLess(Tail(a), Tail(b))

Min(a, b) == IF a < b THEN a ELSE b
Max(a, b) == IF a < b THEN b ELSE a

Range(s) == {s[i] : i \in 1..Len(s)}

\* ---------------------------------------------------------------- store
EmptyStore == [i \in {} |-> 0]

\* one row of the tasks table (description and folder_path are carried by
\* the same statements as title and are never read by the engine)
Row(title, due_iso, recurrence, priority, sort_index) ==
    [title |-> title, due_iso |-> due_iso, recurrence |-> recurrence,
     priority |-> priority, sort_index |-> sort_index,
     last_notified_date |-> NULL, completed |-> 0]

\* INSERT INTO tasks ... : a new row under the next AUTOINCREMENT rowid
InsertRow(T, id, row) ==
    [i \in DOMAIN T \cup {id} |-> IF i = id THEN row ELSE T[i]]

\* DELETE FROM tasks WHERE id=?
DeleteRow(T, id) == [i \in DOMAIN T \ {id} |-> T[i]]

\* add_task: sort_index = int(datetime.now().timestamp() * 1000); tick 0 of
\* the model is one tick after the epoch
MsPerTick == 10
NowMillis(now) == (now + 1) * MsPerTick

\* ---------------------------------------------------------------- ordering
\* the Manual order with priority ASC in place of priority DESC
ManualBefore_prio_asc(T, x, y) ==
    IF T[x].sort_index # T[y].sort_index THEN T[x].sort_index < T[y].sort_index
    ELSE IF T[x].priority # T[y].priority THEN T[x].priority < T[y].priority
    ELSE IF T[x].due_iso # T[y].due_iso THEN TextLess(T[x].due_iso, T[y].due_iso)
    ELSE x < y

\* ORDER BY sort_index ASC, priority DESC, due_iso ASC; rows with equal keys
\* come out in table-scan (rowid) order
ManualBefore(T, x, y) ==
    IF T[x].sort_index # T[y].sort_index THEN T[x].sort_index < T[y].sort_index
    ELSE IF T[x].priority # T[y].priority THEN T[x].priority > T[y].priority
    ELSE IF T[x].due_iso # T[y].due_iso THEN TextLess(T[x].due_iso, T[y].due_iso)
    ELSE x < y

\* the PriorityFirst order with sort_index kept as the last key
PriorityBefore_rank(T, x, y) ==
    IF T[x].priority # T[y].priority THEN T[x].priority > T[y].priority
    ELSE IF T[x].due_iso # T[y].due_iso THEN TextLess(T[x].due_iso, T[y].due_iso)
    ELSE IF T[x].sort_index # T[y].sort_index THEN T[x].sort_index < T[y].sort_index
    ELSE x < y

\* ORDER BY priority DESC, due_iso ASC; rows with equal keys in rowid order
PriorityBefore(T, x, y) ==
    IF T[x].priority # T[y].priority THEN T[x].priority > T[y].priority
    ELSE IF T[x].due_iso # T[y].due_iso THEN TextLess(T[x].due_iso, T[y].due_iso)
    ELSE x < y

OrderBefore(T, order_by_custom, x, y) ==
    IF order_by_custom THEN ManualBefore(T, x, y) ELSE PriorityBefore(T, x, y)

RECURSIVE SortRows(_, _, _)
SortRows(T, S, order_by_custom) ==
    IF S = {} THEN <<>>
    ELSE LET m == CHOOSE x \in S :
                    \A y \in S \ {x} : OrderBefore(T, order_by_custom, x, y)
         IN  <<m>> \o SortRows(T, S \ {m}, order_by_custom)

\* get_tasks: the rowids of all rows, in the order of the query
get_tasks(T, order_by_custom) == SortRows(T, DOMAIN T, order_by_custom)

\* ---------------------------------------------------------------- row updates
\* an UPDATE that also clears the marker when the due timestamp moves
UpdateTaskRow_rearm(T, task_id, title, due_dt, recurrence, priority) ==
    IF task_id \notin DOMAIN T THEN T
    ELSE [T EXCEPT ![task_id].title = title,
                   ![task_id].due_iso = isoformat(due_dt),
                   ![task_id].recurrence = recurrence,
                   ![task_id].priority = priority,
                   ![task_id].last_notified_date =
                       IF T[task_id].due_iso = isoformat(due_dt)
                       THEN T[task_id].last_notified_date ELSE NULL]

\* an UPDATE that also moves the edited task to the top of the Manual view
UpdateTaskRow_top(T, task_id, title, due_dt, recurrence, priority) ==
    IF task_id \notin DOMAIN T THEN T
    ELSE [T EXCEPT ![task_id].title = title,
                   ![task_id].due_iso = isoformat(due_dt),
                   ![task_id].recurrence = recurrence,
                   ![task_id].priority = priority,
                   ![task_id].sort_index = 0]

\* UPDATE tasks SET title=?, description=?, due_iso=?, recurrence=?,
\*                  folder_path=?, priority=? WHERE id=?
UpdateTaskRow(T, task_id, title, due_dt, recurrence, priority) ==
    IF task_id \notin DOMAIN T THEN T
    ELSE [T EXCEPT ![task_id].title = title,
                   ![task_id].due_iso = isoformat(due_dt),
                   ![task_id].recurrence = recurrence,
                   ![task_id].priority = priority]

\* a marker UPDATE that is never committed
set_task_notified_date_no_commit(T, task_id, yyyy_mm_dd) == T

\* the marker UPDATE without its WHERE clause
set_task_notified_date_all_rows(T, task_id, yyyy_mm_dd) ==
    [i \in DOMAIN T |-> [T[i] EXCEPT !.last_notified_date = yyyy_mm_dd]]

\* UPDATE tasks SET last_notified_date=? WHERE id=?
set_task_notified_date(T, task_id, yyyy_mm_dd) ==
    IF task_id \notin DOMAIN T THEN T
    ELSE [T EXCEPT ![task_id].last_notified_date = yyyy_mm_dd]

\* an UPDATE of the completed flag that also clears the marker
SetCompletedRow_clear(T, task_id, completed) ==
    IF task_id \notin DOMAIN T THEN T
    ELSE [T EXCEPT ![task_id].completed = IF completed THEN 1 ELSE 0,
                   ![task_id].last_notified_date = NULL]

\* UPDATE tasks SET completed=? WHERE id=?
SetCompletedRow(T, task_id, completed) ==
    IF task_id \notin DOMAIN T THEN T
    ELSE [T EXCEPT ![task_id].completed = IF completed THEN 1 ELSE 0]

\* UPDATE tasks SET sort_index=? WHERE id=?
SetSortIndex(T, task_id, idx) ==
    IF task_id \notin DOMAIN T THEN T
    ELSE [T EXCEPT ![task_id].sort_index = idx]

\* SELECT id, sort_index FROM tasks WHERE id IN (?,?): the matching rows,
\* each once, in rowid order
SwapVals(T, task_id, other_id) ==
    LET S == {task_id, other_id} \cap DOMAIN T
        lo == CHOOSE x \in S : \A y \in S : x <= y
    IN  IF S = {} THEN <<>>
        ELSE IF Cardinality(S) = 1 THEN << <<lo, T[lo].sort_index>> >>
        ELSE LET hi == CHOOSE x \in S : x # lo
             IN  << <<lo, T[lo].sort_index>>, <<hi, T[hi].sort_index>> >>

\* a guard that only returns early when no row was fetched
SwapGuard_empty(vals) == Len(vals) = 0

\* no guard at all
SwapGuard_none(vals) == FALSE

\* if len(vals) != 2: return
SwapGuard(vals) == Len(vals) # 2

\* vals[0] and vals[1] are unpacked once the guard is passed: IndexError
\* when fewer than two rows were fetched
SwapRaises(T, task_id, other_id) ==
    LET vals == SwapVals(T, task_id, other_id)
    IN  ~SwapGuard(vals) /\ Len(vals) < 2

\* a swap whose second UPDATE writes the rank read back from the first row
\* after the first UPDATE
SwapStore_clobber(T, task_id, other_id) ==
    LET vals == SwapVals(T, task_id, other_id)
    IN  IF SwapGuard(vals) \/ Len(vals) < 2 THEN T
        ELSE LET a_id == vals[1][1]
                 b_id == vals[2][1]
                 b_idx == vals[2][2]
                 T1 == SetSortIndex(T, a_id, b_idx)
             IN  SetSortIndex(T1, b_id, T1[a_id].sort_index)

\* a swap that stops after its first UPDATE
SwapStore_half(T, task_id, other_id) ==
    LET vals == SwapVals(T, task_id, other_id)
    IN  IF SwapGuard(vals) \/ Len(vals) < 2 THEN T
        ELSE SetSortIndex(T, vals[1][1], vals[2][2])

\* swap_sort_index: the store after the call (the two UPDATEs run in turn;
\* nothing is written when the call returns early or raises)
SwapStore(T, task_id, other_id) ==
    LET vals == SwapVals(T, task_id, other_id)
    IN  IF SwapGuard(vals) \/ Len(vals) < 2 THEN T
        ELSE LET a_id == vals[1][1]
                 a_idx == vals[1][2]
                 b_id == vals[2][1]
                 b_idx == vals[2][2]
             IN  SetSortIndex(SetSortIndex(T, a_id, b_idx), b_id, a_idx)

\* ---------------------------------------------------------------- reminders
\* notify_flag without the test of the marker of a 'once' task
notify_flag_once_unmarked(row, now, window_end, today) ==
    LET due_dt == parse_iso_or_flex(row.due_iso)
    IN  IF due_dt = None THEN FALSE
        ELSE IF row.completed # 0 THEN FALSE
        ELSE IF row.recurrence = "once"
             THEN now <= due_dt /\ due_dt <= window_end
        ELSE IF row.recurrence = "daily"
             THEN LET scheduled_today == combine(today, TimeOf(due_dt))
                  IN  /\ now <= scheduled_today
                      /\ scheduled_today <= window_end
                      /\ row.last_notified_date # date_isoformat(today)
        ELSE FALSE

\* notify_flag without the test of the marker of a 'daily' task
notify_flag_daily_unmarked(row, now, window_end, today) ==
    LET due_dt == parse_iso_or_flex(row.due_iso)
    IN  IF due_dt = None THEN FALSE
        ELSE IF row.completed # 0 THEN FALSE
        ELSE IF row.recurrence = "once"
             THEN /\ now <= due_dt
                  /\ due_dt <= window_end
                  /\ row.last_notified_date = NULL
        ELSE IF row.recurrence = "daily"
             THEN LET scheduled_today == combine(today, TimeOf(due_dt))
                  IN  now <= scheduled_today /\ scheduled_today <= window_end
        ELSE FALSE

\* notify_flag without the test of the completed flag
notify_flag_completed(row, now, window_end, today) ==
    LET due_dt == parse_iso_or_flex(row.due_iso)
    IN  IF due_dt = None THEN FALSE
        ELSE IF row.recurrence = "once"
             THEN /\ now <= due_dt
                  /\ due_dt <= window_end
                  /\ row.last_notified_date = NULL
        ELSE IF row.recurrence = "daily"
             THEN LET scheduled_today == combine(today, TimeOf(due_dt))
                  IN  /\ now <= scheduled_today
                      /\ scheduled_today <= window_end
                      /\ row.last_notified_date # date_isoformat(today)
        ELSE FALSE

\* notify_flag with both ends of the window of a 'once' task excluded
notify_flag_once_open(row, now, window_end, today) ==
    LET due_dt == parse_iso_or_flex(row.due_iso)
    IN  IF due_dt = None THEN FALSE
        ELSE IF row.completed # 0 THEN FALSE
        ELSE IF row.recurrence = "once"
             THEN /\ now < due_dt
                  /\ due_dt < window_end
                  /\ row.last_notified_date = NULL
        ELSE IF row.recurrence = "daily"
             THEN LET scheduled_today == combine(today, TimeOf(due_dt))
                  IN  /\ now <= scheduled_today
                      /\ scheduled_today <= window_end
                      /\ row.last_notified_date # date_isoformat(today)
        ELSE FALSE

\* notify_flag with a row whose due text fails to parse taken as due now
notify_flag_unparsed_now(row, now, window_end, today) ==
    LET parsed == parse_iso_or_flex(row.due_iso)
        due_dt == IF parsed = None THEN now ELSE parsed
    IN  IF row.completed # 0 THEN FALSE
        ELSE IF row.recurrence = "once"
             THEN /\ now <= due_dt
                  /\ due_dt <= window_end
                  /\ row.last_notified_date = NULL
        ELSE IF row.recurrence = "daily"
             THEN LET scheduled_today == combine(today, TimeOf(due_dt))
                  IN  /\ now <= scheduled_today
                      /\ scheduled_today <= window_end
                      /\ row.last_notified_date # date_isoformat(today)
        ELSE FALSE

\* the body of the loop of check_due_tasks for one row
notify_flag(row, now, window_end, today) ==
    LET due_dt == parse_iso_or_flex(row.due_iso)
    IN  IF due_dt = None THEN FALSE
        ELSE IF row.completed # 0 THEN FALSE
        ELSE IF row.recurrence = "once"
             THEN /\ now <= due_dt
                  /\ due_dt <= window_end
                  /\ row.last_notified_date = NULL
        ELSE IF row.recurrence = "daily"
             THEN LET scheduled_today == combine(today, TimeOf(due_dt))
                  IN  /\ now <= scheduled_today
                      /\ scheduled_today <= window_end
                      /\ row.last_notified_date # date_isoformat(today)
        ELSE FALSE

\* the rowids appended to `upcoming`, in the order of get_tasks(False)
DueIds(T, now, window_minutes, today) ==
    SelectSeq(get_tasks(T, FALSE),
              LAMBDA id : notify_flag(T[id], now, now + window_minutes, today))

\* one element of `upcoming`
Event(T, id) ==
    [task_id |-> id, title |-> T[id].title,
     due_dt |-> parse_iso_or_flex(T[id].due_iso), priority |-> T[id].priority]

\* a second loop that writes the date of the due timestamp as the marker
RECURSIVE MarkNotified_due_date(_, _, _)
MarkNotified_due_date(T, ids, today) ==
    IF ids = <<>> THEN T
    ELSE MarkNotified_due_date(
             set_task_notified_date(
                 T, Head(ids),
                 date_isoformat(DateOf(parse_iso_or_flex(T[Head(ids)].due_iso)))),
             Tail(ids), today)

\* the second loop of check_due_tasks: mark every upcoming task
RECURSIVE MarkNotified(_, _, _)
MarkNotified(T, ids, today) ==
    IF ids = <<>> THEN T
    ELSE MarkNotified(set_task_notified_date(T, Head(ids), date_isoformat(today)),
                      Tail(ids), today)

\* ---------------------------------------------------------------- history
\* lastOp: op is the operation, a and b its arguments (swap_sort_index: the
\* two ids, smaller first; check_due_tasks: a = 1 while the host clock still
\* shows the captured now; update_task: the rowid and b = 1 when it moved the
\* due timestamp of a task whose marker was set), after is what came
\* immediately before it ("check": another check_due_tasks; "swap":
\* swap_sort_index of the same pair; "redue": such an update_task, of task t)
Op(name, a, b, after, t) == [op |-> name, a |-> a, b |-> b, after |-> after, t |-> t]
NoOp == Op("none", 0, 0, "", 0)

SortIndexOf(T) == [i \in DOMAIN T |-> T[i].sort_index]

\* rowid -> sort_index before the last swap_sort_index
prevIdx == SortIndexOf(prevTasks)

Bump(n) == Min(n + 1, MaxFires)

EventIds(events) == {events[k].task_id : k \in 1..Len(events)}

\* ---------------------------------------------------------------- notifier
\* what the plyer backend does when asked to show a notification
PlyerOutcomes == {"shown", "raises", "absent"}

\* notify_os: True when plyer is present and shows the notification; when it
\* is absent or raises, the message goes to the page and the result is False
notify_os(plyer) == plyer = "shown"

\* a second loop that marks a task only when its notification was delivered
MarkAfterNotify_delivered(T, task_id, delivered, today) ==
    IF delivered THEN set_task_notified_date(T, task_id, date_isoformat(today))
    ELSE T

\* the statement after notify_os in the second loop of check_due_tasks: the
\* result of notify_os is dropped and the marker is written
MarkAfterNotify(T, task_id, delivered, today) ==
    set_task_notified_date(T, task_id, date_isoformat(today))

\* ---------------------------------------------------------------- call locals
\* the locals of one check_due_tasks call: pc is its position ("idle" before
\* the call, "scan" in the first loop, "compare" between the two readings of
\* date.today() for a 'daily' row, "notify" in the second loop, "done" after
\* the return), rows the fetched list, i and j the loop positions, outcomes
\* the notifier's behaviour for each event so far, inflight the calls that
\* were running when this one fetched its rows
IdleCall ==
    [pc |-> "idle", now |-> 0, window_end |-> 0, rows |-> <<>>, i |-> 0,
     scheduled_today |-> 0, upcoming |-> <<>>, j |-> 0, outcomes |-> <<>>,
     inflight |-> {}]

\* the locals of one swap_sort_index call: pc its position ("idle" before the
\* call, "first" and "second" before the first and the second UPDATE, "done"
\* after the return), vals the rows fetched by the SELECT
IdleSwap == [pc |-> "idle", vals |-> <<>>]

\* HAS_PLYER is set once, at import: plyer is absent for every notification
\* or for none
HasPlyerFixed(plyer) ==
    \A q \in Calls : \A k \in 1..Len(evals[q].outcomes) :
        (evals[q].outcomes[k] = "absent") <=> (plyer = "absent")

\* the next position of the first loop after row i
AfterRow(e) ==
    IF e.i < Len(e.rows) THEN [e EXCEPT !.pc = "scan", !.i = e.i + 1]
    ELSE [e EXCEPT !.pc = "notify", !.i = e.i + 1, !.j = 1]

\* upcoming.append(...) when the row is flagged
Flagged(e, flag) ==
    IF flag
    THEN [e EXCEPT !.upcoming =
             Append(e.upcoming,
                    [task_id |-> e.rows[e.i].task_id,
                     title |-> e.rows[e.i].row.title,
                     due_dt |-> parse_iso_or_flex(e.rows[e.i].row.due_iso),
                     priority |-> e.rows[e.i].row.priority])]
    ELSE e

\* a 'daily' row that reaches the computation of scheduled_today
ReachesAnchor(row) ==
    /\ parse_iso_or_flex(row.due_iso) # None
    /\ row.completed = 0
    /\ row.recurrence = "daily"

\* the test of a 'daily' row once scheduled_today is computed:
\* now <= scheduled_today <= window_end and the marker is not today's date
daily_due(row, now, window_end, scheduled_today, today) ==
    /\ now <= scheduled_today
    /\ scheduled_today <= window_end
    /\ row.last_notified_date # date_isoformat(today)

\* ---------------------------------------------------------------- operations
Init ==
    /\ tasks = EmptyStore
    /\ nextId = 1
    /\ clock = 0
    /\ upcoming = <<>>
    /\ lastOp = NoOp
    /\ prevTasks = EmptyStore
    /\ fires = EmptyStore
    /\ dayFires = EmptyStore
    /\ alwaysOnce = EmptyStore
    /\ raised = FALSE
    /\ evals = [p \in Calls |-> IdleCall]
    /\ swaps = [p \in Calls |-> IdleSwap]

\* the host clock advances by one tick
Tick ==
    /\ clock < MaxClock
    /\ clock' = clock + 1
    /\ dayFires' = IF DateOf(clock + 1) # DateOf(clock)
                   THEN [i \in DOMAIN dayFires |-> 0] ELSE dayFires
    /\ lastOp' = IF lastOp.op = "check" THEN [lastOp EXCEPT !.a = 0] ELSE lastOp
    /\ UNCHANGED <<tasks, nextId, upcoming, prevTasks, fires, alwaysOnce, raised, evals,
                   swaps>>

add_task(limit, title, due_dt, recurrence, priority) ==
    /\ nextId <= limit
    /\ LET si == NowMillis(clock)
       IN  tasks' = InsertRow(tasks, nextId,
                              Row(title, isoformat(due_dt), recurrence, priority, si))
    /\ nextId' = nextId + 1
    /\ fires' = InsertRow(fires, nextId, 0)
    /\ dayFires' = InsertRow(dayFires, nextId, 0)
    /\ alwaysOnce' = InsertRow(alwaysOnce, nextId, recurrence = "once")
    /\ lastOp' = Op("add", 0, 0, "", 0)
    /\ upcoming' = <<>>
    /\ prevTasks' = EmptyStore
    /\ raised' = FALSE
    /\ UNCHANGED <<clock, evals, swaps>>

update_task(task_id, title, due_dt, recurrence, priority) ==
    /\ tasks' = UpdateTaskRow(tasks, task_id, title, due_dt, recurrence, priority)
    /\ alwaysOnce' = [i \in DOMAIN alwaysOnce |->
                         IF i = task_id THEN alwaysOnce[i] /\ recurrence = "once"
                         ELSE alwaysOnce[i]]
    /\ lastOp' = IF /\ task_id \in DOMAIN tasks
                    /\ tasks[task_id].last_notified_date # NULL
                    /\ tasks[task_id].due_iso # isoformat(due_dt)
                 THEN Op("update", task_id, 1, "", 0)
                 ELSE Op("update", 0, 0, "", 0)
    /\ upcoming' = <<>>
    /\ prevTasks' = EmptyStore
    /\ raised' = FALSE
    /\ UNCHANGED <<nextId, clock, fires, dayFires, evals, swaps>>

delete_task(task_id) ==
    /\ tasks' = DeleteRow(tasks, task_id)
    /\ fires' = DeleteRow(fires, task_id)
    /\ dayFires' = DeleteRow(dayFires, task_id)
    /\ alwaysOnce' = DeleteRow(alwaysOnce, task_id)
    /\ lastOp' = Op("delete", 0, 0, "", 0)
    /\ upcoming' = <<>>
    /\ prevTasks' = EmptyStore
    /\ raised' = FALSE
    /\ UNCHANGED <<nextId, clock, evals, swaps>>

set_task_completed(task_id, completed) ==
    /\ tasks' = SetCompletedRow(tasks, task_id, completed)
    /\ lastOp' = Op("complete", 0, 0, "", 0)
    /\ upcoming' = <<>>
    /\ prevTasks' = EmptyStore
    /\ raised' = FALSE
    /\ UNCHANGED <<nextId, clock, fires, dayFires, alwaysOnce, evals, swaps>>

swap_sort_index(task_id, other_id) ==
    /\ tasks' = SwapStore(tasks, task_id, other_id)
    /\ raised' = SwapRaises(tasks, task_id, other_id)
    /\ prevTasks' = tasks
    /\ lastOp' = Op("swap", Min(task_id, other_id), Max(task_id, other_id),
                    IF /\ lastOp.op = "swap"
                       /\ lastOp.a = Min(task_id, other_id)
                       /\ lastOp.b = Max(task_id, other_id)
                    THEN "swap" ELSE "", 0)
    /\ upcoming' = <<>>
    /\ UNCHANGED <<nextId, clock, fires, dayFires, alwaysOnce, evals, swaps>>

\* check_due_tasks, run to completion at one reading of the host clock
check_due_tasks(window_minutes) ==
    LET now == clock
        today == DateOf(clock)
        ids == DueIds(tasks, now, window_minutes, today)
    IN  /\ upcoming' = [k \in 1..Len(ids) |-> Event(tasks, ids[k])]
        /\ tasks' = MarkNotified(tasks, ids, today)
        /\ fires' = [i \in DOMAIN fires |->
                        IF i \in Range(ids) THEN Bump(fires[i]) ELSE fires[i]]
        /\ dayFires' = [i \in DOMAIN dayFires |->
                        IF i \in Range(ids) THEN Bump(dayFires[i]) ELSE dayFires[i]]
        /\ lastOp' = IF lastOp.op = "check"
                     THEN Op("check", 1, 0, "check", 0)
                     ELSE IF lastOp.op = "update" /\ lastOp.b = 1
                     THEN Op("check", 1, 0, "redue", lastOp.a)
                     ELSE Op("check", 1, 0, "", 0)
        /\ prevTasks' = EmptyStore
        /\ raised' = FALSE
        /\ UNCHANGED <<nextId, clock, alwaysOnce, evals, swaps>>

\* ---------------------------------------------------------------- move handlers
\* idxs.index(task_id): the position of task_id in a list of rowids, counted
\* from 1 (0 when it is not in the list: ValueError)
IndexOf(idxs, task_id) ==
    IF task_id \in Range(idxs)
    THEN CHOOSE k \in 1..Len(idxs) : idxs[k] = task_id
    ELSE 0

\* the "up" button of a task: the neighbour before it in get_tasks() is
\* looked up and swap_sort_index is called; nothing happens for the first
\* task or for a task that is no longer in the list
move_up(task_id) ==
    LET idxs == get_tasks(tasks, TRUE)
        pos == IndexOf(idxs, task_id)
    IN  /\ pos > 1
        /\ swap_sort_index(task_id, idxs[pos - 1])

\* the "down" button of a task, with the neighbour after it
move_down(task_id) ==
    LET idxs == get_tasks(tasks, TRUE)
        pos == IndexOf(idxs, task_id)
    IN  /\ pos >= 1
        /\ pos < Len(idxs)
        /\ swap_sort_index(task_id, idxs[pos + 1])

\* ---------------------------------------------------------------- call steps
\* check_due_tasks run statement by statement, so that the host clock and
\* other calls can move in between.  Begin: now, window_end and the rows of
\* get_tasks(False) are taken
Begin(p, window_minutes) ==
    /\ evals[p].pc = "idle"
    /\ LET ids == get_tasks(tasks, FALSE)
           e == [IdleCall EXCEPT
                    !.now = clock,
                    !.window_end = clock + window_minutes,
                    !.rows = [k \in 1..Len(ids) |->
                                 [task_id |-> ids[k], row |-> tasks[ids[k]]]],
                    !.inflight = {q \in Calls :
                                     evals[q].pc \in {"scan", "compare", "notify"}}]
       IN  evals' = [evals EXCEPT ![p] =
                        IF Len(ids) = 0 THEN [e EXCEPT !.pc = "notify", !.j = 1]
                        ELSE [e EXCEPT !.pc = "scan", !.i = 1]]
    /\ UNCHANGED <<tasks, nextId, clock, upcoming, lastOp, prevTasks, fires,
                   dayFires, alwaysOnce, raised, swaps>>

\* the body of the first loop for row i, up to the first reading of
\* date.today() for a 'daily' row
ScanRow(p) ==
    /\ evals[p].pc = "scan"
    /\ LET e == evals[p]
           row == e.rows[e.i].row
       IN  evals' = [evals EXCEPT ![p] =
              IF ReachesAnchor(row)
              THEN [e EXCEPT !.pc = "compare",
                             !.scheduled_today =
                                 combine(DateOf(clock),
                                         TimeOf(parse_iso_or_flex(row.due_iso)))]
              ELSE AfterRow(Flagged(e, notify_flag(row, e.now, e.window_end,
                                                   DateOf(clock))))]
    /\ UNCHANGED <<tasks, nextId, clock, upcoming, lastOp, prevTasks, fires,
                   dayFires, alwaysOnce, raised, swaps>>

\* the rest of the body for a 'daily' row, with the second reading of
\* date.today()
ScanCompare(p) ==
    /\ evals[p].pc = "compare"
    /\ LET e == evals[p]
           row == e.rows[e.i].row
       IN  evals' = [evals EXCEPT ![p] =
              AfterRow(Flagged(e, daily_due(row, e.now, e.window_end,
                                            e.scheduled_today, DateOf(clock))))]
    /\ UNCHANGED <<tasks, nextId, clock, upcoming, lastOp, prevTasks, fires,
                   dayFires, alwaysOnce, raised, swaps>>

\* one round of the second loop: notify_os, then set_task_notified_date with
\* the third reading of date.today()
NotifyAndMark(p, plyer) ==
    /\ evals[p].pc = "notify"
    /\ evals[p].j <= Len(evals[p].upcoming)
    /\ HasPlyerFixed(plyer)
    /\ LET e == evals[p]
           id == e.upcoming[e.j].task_id
       IN  /\ tasks' = MarkAfterNotify(tasks, id, notify_os(plyer), DateOf(clock))
           /\ fires' = [t \in DOMAIN fires |->
                           IF t = id THEN Bump(fires[t]) ELSE fires[t]]
           /\ dayFires' = [t \in DOMAIN dayFires |->
                           IF t = id THEN Bump(dayFires[t]) ELSE dayFires[t]]
           /\ evals' = [evals EXCEPT ![p] =
                           [e EXCEPT !.j = e.j + 1,
                                     !.outcomes = Append(e.outcomes, plyer)]]
    /\ UNCHANGED <<nextId, clock, upcoming, lastOp, prevTasks, alwaysOnce, raised,
                   swaps>>

\* return upcoming
Return(p) ==
    /\ evals[p].pc = "notify"
    /\ evals[p].j > Len(evals[p].upcoming)
    /\ evals' = [evals EXCEPT ![p].pc = "done"]
    /\ upcoming' = evals[p].upcoming
    /\ UNCHANGED <<tasks, nextId, clock, lastOp, prevTasks, fires, dayFires,
                   alwaysOnce, raised, swaps>>

\* ---------------------------------------------------------------- swap steps
\* swap_sort_index run statement by statement, each run_query in its own
\* connection and transaction, so that other calls can move in between.
\* SwapRead: the SELECT and the guard; prevTasks keeps the table the first
\* call read
SwapRead(p, task_id, other_id) ==
    /\ swaps[p].pc = "idle"
    /\ LET vals == SwapVals(tasks, task_id, other_id)
       IN  swaps' = [swaps EXCEPT ![p] =
                        [pc |-> IF SwapGuard(vals) THEN "done" ELSE "first",
                         vals |-> vals]]
    /\ prevTasks' = IF \A q \in Calls : swaps[q].pc = "idle"
                    THEN tasks ELSE prevTasks
    /\ UNCHANGED <<tasks, nextId, clock, upcoming, lastOp, fires, dayFires,
                   alwaysOnce, raised, evals>>

\* UPDATE tasks SET sort_index=b_idx WHERE id=a_id
SwapFirstUpdate(p) ==
    /\ swaps[p].pc = "first"
    /\ LET a_id == swaps[p].vals[1][1]
           b_idx == swaps[p].vals[2][2]
       IN  tasks' = SetSortIndex(tasks, a_id, b_idx)
    /\ swaps' = [swaps EXCEPT ![p].pc = "second"]
    /\ UNCHANGED <<nextId, clock, upcoming, lastOp, prevTasks, fires, dayFires,
                   alwaysOnce, raised, evals>>

\* UPDATE tasks SET sort_index=a_idx WHERE id=b_id
SwapSecondUpdate(p) ==
    /\ swaps[p].pc = "second"
    /\ LET a_idx == swaps[p].vals[1][2]
           b_id == swaps[p].vals[2][1]
       IN  tasks' = SetSortIndex(tasks, b_id, a_idx)
    /\ swaps' = [swaps EXCEPT ![p].pc = "done"]
    /\ UNCHANGED <<nextId, clock, upcoming, lastOp, prevTasks, fires, dayFires,
                   alwaysOnce, raised, evals>>

\* ---------------------------------------------------------------- Spec
\* the reminder engine together with every store operation
AddTask ==
    /\ clock <= MaxAddClock
    /\ \E due_dt \in DueTimes, recurrence \in Recurrences :
           add_task(MaxTasks, "A", due_dt, recurrence, 5)

UpdateTask ==
    \E task_id \in DOMAIN tasks, due_dt \in DueTimes, recurrence \in Recurrences :
        update_task(task_id, "A", due_dt, recurrence, 5)

DeleteTask == \E task_id \in DOMAIN tasks : delete_task(task_id)

SetTaskCompleted ==
    \E task_id \in DOMAIN tasks, completed \in BOOLEAN :
        set_task_completed(task_id, completed)

SwapSortIndex ==
    \E task_id \in DOMAIN tasks, other_id \in DOMAIN tasks :
        swap_sort_index(task_id, other_id)

CheckDueTasks == \E window_minutes \in Windows : check_due_tasks(window_minutes)

Next ==
    \/ Tick
    \/ AddTask
    \/ UpdateTask
    \/ DeleteTask
    \/ SetTaskCompleted
    \/ SwapSortIndex
    \/ CheckDueTasks

Spec == Init /\ [][Next]_vars

\* ---------------------------------------------------------------- SpecOrder
\* the ordering policy: creation, deletion and rank swaps of up to
\* MaxOrderTasks tasks, with ids drawn from existing, deleted and
\* never-created rowids
OrderTick ==
    /\ clock < MaxOrderClock
    /\ clock' = clock + 1
    /\ UNCHANGED <<tasks, nextId, upcoming, lastOp, prevTasks, fires, dayFires,
                   alwaysOnce, raised, evals, swaps>>

AddOrderTask ==
    \E due_dt \in 0..MaxOrderDue, priority \in Priorities :
        /\ priority = 5 \/ due_dt = 0
        /\ add_task(MaxOrderTasks, "A", due_dt, "once", priority)

DeleteOrderTask == \E task_id \in DOMAIN tasks : delete_task(task_id)

SwapAny ==
    \E task_id \in 1..nextId, other_id \in 1..nextId :
        swap_sort_index(task_id, other_id)

NextOrder ==
    \/ OrderTick
    \/ AddOrderTask
    \/ DeleteOrderTask
    \/ SwapAny

SpecOrder == Init /\ [][NextOrder]_vars

\* ---------------------------------------------------------------- SpecFrame
\* every store operation and the reminder engine on up to MaxFrameTasks
\* tasks within one calendar day; the edit form rewrites title and priority
Titles == {"A", "B"}

FrameTick ==
    /\ clock < MaxFrameClock
    /\ Tick

AddFrameTask ==
    \E due_dt \in 0..MaxFrameClock, recurrence \in Recurrences :
        add_task(MaxFrameTasks, "A", due_dt, recurrence, 5)

EditFrameTask ==
    \E task_id \in DOMAIN tasks, due_dt \in 0..MaxFrameClock,
       recurrence \in Recurrences, priority \in Priorities :
        update_task(task_id, "B", due_dt, recurrence, priority)

DeleteFrameTask == \E task_id \in DOMAIN tasks : delete_task(task_id)

CompleteFrameTask ==
    \E task_id \in DOMAIN tasks, completed \in BOOLEAN :
        set_task_completed(task_id, completed)

SwapFrameTasks ==
    \E task_id \in DOMAIN tasks, other_id \in DOMAIN tasks :
        swap_sort_index(task_id, other_id)

CheckFrame == \E window_minutes \in Windows : check_due_tasks(window_minutes)

NextFrame ==
    \/ FrameTick
    \/ AddFrameTask
    \/ EditFrameTask
    \/ DeleteFrameTask
    \/ CompleteFrameTask
    \/ SwapFrameTasks
    \/ CheckFrame

SpecFrame == Init /\ [][NextFrame]_vars

\* ---------------------------------------------------------------- SpecSteps
\* one check_due_tasks call run stepwise, interleaved with the creation of
\* up to MaxStepTasks tasks and with the host clock
AddStepTask ==
    /\ clock <= MaxAddClock
    /\ \E due_dt \in DueTimes, recurrence \in Recurrences :
           add_task(MaxStepTasks, "A", due_dt, recurrence, 5)

BeginStep == \E window_minutes \in Windows : Begin(1, window_minutes)

ScanRowStep == ScanRow(1)

ScanCompareStep == ScanCompare(1)

NotifyAndMarkStep == \E plyer \in PlyerOutcomes : NotifyAndMark(1, plyer)

ReturnStep == Return(1)

NextSteps ==
    \/ Tick
    \/ AddStepTask
    \/ BeginStep
    \/ ScanRowStep
    \/ ScanCompareStep
    \/ NotifyAndMarkStep
    \/ ReturnStep

SpecSteps == Init /\ [][NextSteps]_vars

\* ---------------------------------------------------------------- SpecRace
\* up to MaxCalls check_due_tasks calls, from as many sessions, run stepwise
\* and interleaved with each other, with the creation of up to MaxRaceTasks
\* tasks and with the host clock
AddRaceTask ==
    /\ clock <= MaxAddClock
    /\ \E due_dt \in DueTimes, recurrence \in Recurrences :
           add_task(MaxRaceTasks, "A", due_dt, recurrence, 5)

BeginCall == \E p \in Calls, window_minutes \in Windows : Begin(p, window_minutes)

ScanRowCall == \E p \in Calls : ScanRow(p)

ScanCompareCall == \E p \in Calls : ScanCompare(p)

NotifyAndMarkCall == \E p \in Calls, plyer \in PlyerOutcomes : NotifyAndMark(p, plyer)

ReturnCall == \E p \in Calls : Return(p)

NextRace ==
    \/ Tick
    \/ AddRaceTask
    \/ BeginCall
    \/ ScanRowCall
    \/ ScanCompareCall
    \/ NotifyAndMarkCall
    \/ ReturnCall

SpecRace == Init /\ [][NextRace]_vars

\* ---------------------------------------------------------------- SpecEval
\* check_due_tasks on every store of up to MaxEvalTasks rows that the tasks
\* table can hold: due_iso is any TEXT (a datetime, a date alone, the empty
\* string, text in no known format), the marker is unset or a date up to today
Garbage == <<0, 0, 0>>

EvalDueTexts ==
    {isoformat(t) : t \in Ticks} \cup {date_isoformat(d) : d \in 0..MaxDay}
        \cup {<<>>, Garbage}

EvalRows(today) ==
    {[title |-> "A", due_iso |-> d, recurrence |-> r, priority |-> 5,
      sort_index |-> NowMillis(0), last_notified_date |-> m, completed |-> c] :
        d \in EvalDueTexts, r \in Recurrences,
        m \in {NULL} \cup {date_isoformat(x) : x \in 0..today}, c \in {0, 1}}

InitEval ==
    /\ clock \in Ticks
    /\ nextId \in 1..(MaxEvalTasks + 1)
    /\ tasks \in [1..(nextId - 1) -> EvalRows(DateOf(clock))]
    /\ upcoming = <<>>
    /\ lastOp = NoOp
    /\ prevTasks = EmptyStore
    /\ fires = [i \in DOMAIN tasks |-> 0]
    /\ dayFires = [i \in DOMAIN tasks |-> 0]
    /\ alwaysOnce = [i \in DOMAIN tasks |-> tasks[i].recurrence = "once"]
    /\ raised = FALSE
    /\ evals = [p \in Calls |-> IdleCall]
    /\ swaps = [p \in Calls |-> IdleSwap]

CheckEval == \E window_minutes \in Windows : check_due_tasks(window_minutes)

NextEval ==
    \/ Tick
    \/ CheckEval

SpecEval == InitEval /\ [][NextEval]_vars

\* ---------------------------------------------------------------- SpecMove
\* the Manual list driven by its buttons: creation and deletion of up to
\* MaxOrderTasks tasks and the up and down buttons of every listed task
MoveTick ==
    /\ clock < MaxOrderClock
    /\ clock' = clock + 1
    /\ UNCHANGED <<tasks, nextId, upcoming, lastOp, prevTasks, fires, dayFires,
                   alwaysOnce, raised, evals, swaps>>

AddMoveTask ==
    \E due_dt \in 0..MaxOrderDue, priority \in Priorities :
        /\ priority = 5 \/ due_dt = 0
        /\ add_task(MaxOrderTasks, "A", due_dt, "once", priority)

DeleteMoveTask == \E task_id \in DOMAIN tasks : delete_task(task_id)

MoveUp == \E task_id \in DOMAIN tasks : move_up(task_id)

MoveDown == \E task_id \in DOMAIN tasks : move_down(task_id)

NextMove ==
    \/ MoveTick
    \/ AddMoveTask
    \/ DeleteMoveTask
    \/ MoveUp
    \/ MoveDown

SpecMove == Init /\ [][NextMove]_vars

\* ---------------------------------------------------------------- SpecSwaps
\* up to MaxSwapTasks tasks are created, then up to MaxCalls swap_sort_index
\* calls run statement by statement, interleaved in any order
SwapTick ==
    /\ clock < MaxSwapClock
    /\ \A q \in Calls : swaps[q].pc = "idle"
    /\ clock' = clock + 1
    /\ UNCHANGED <<tasks, nextId, upcoming, lastOp, prevTasks, fires, dayFires,
                   alwaysOnce, raised, evals, swaps>>

AddSwapTask ==
    /\ \A q \in Calls : swaps[q].pc = "idle"
    /\ add_task(MaxSwapTasks, "A", 0, "once", 5)

SwapReadCall ==
    \E p \in Calls, task_id \in DOMAIN tasks, other_id \in DOMAIN tasks :
        SwapRead(p, task_id, other_id)

SwapFirstUpdateCall == \E p \in Calls : SwapFirstUpdate(p)

SwapSecondUpdateCall == \E p \in Calls : SwapSecondUpdate(p)

NextSwaps ==
    \/ SwapTick
    \/ AddSwapTask
    \/ SwapReadCall
    \/ SwapFirstUpdateCall
    \/ SwapSecondUpdateCall

SpecSwaps == Init /\ [][NextSwaps]_vars

\* ---------------------------------------------------------------- properties
DueOf(t) == parse_iso_or_flex(tasks[t].due_iso)
MarkerOf(t) == tasks[t].last_notified_date
Today == DateOf(clock)
\* some check_due_tasks call is the step
CheckTaken == lastOp'.op = "check" /\ lastOp'.a = 1 /\ clock' = clock

\* a step of check_due_tasks(w) (the history is compared first)
CheckStep(w) == CheckTaken /\ check_due_tasks(w)

\* some swap_sort_index call is the step
SwapTaken == lastOp'.op = "swap" /\ clock' = clock

\* a step of swap_sort_index(a, b) (the history is compared first)
SwapStep(a, b) ==
    /\ SwapTaken
    /\ lastOp'.a = Min(a, b) /\ lastOp'.b = Max(a, b)
    /\ swap_sort_index(a, b)

EventCount(events, t) == Cardinality({k \in 1..Len(events) : events[k].task_id = t})

\* C1: an incomplete 'once' task with a parseable due timestamp and an unset
\* marker whose due lies in [now, now+window] gets exactly one event from
\* check_due_tasks and its marker becomes today's date; a second
\* check_due_tasks with no operation in between emits no event for it.
C1_OnceFiresThenStops ==
    /\ [][CheckTaken => \A w \in Windows : CheckStep(w) =>
            \A t \in DOMAIN tasks :
                (/\ tasks[t].completed = 0
                 /\ tasks[t].recurrence = "once"
                 /\ DueOf(t) # None
                 /\ MarkerOf(t) = NULL
                 /\ clock <= DueOf(t)
                 /\ DueOf(t) <= clock + w)
                => /\ EventCount(upcoming', t) = 1
                   /\ tasks'[t].last_notified_date = date_isoformat(Today)]_vars
    /\ [][(lastOp.op = "check" /\ CheckTaken /\ \E w \in Windows : CheckStep(w)) =>
            \A t \in EventIds(upcoming) :
                tasks[t].recurrence = "once" => t \notin EventIds(upcoming')]_vars

\* a second check_due_tasks has just run right after another one: the 'once'
\* task notified today is still in the window and was not emitted again
C1_Witness ==
    /\ lastOp.op = "check" /\ lastOp.after = "check" /\ lastOp.a = 1
    /\ upcoming = <<>>
    /\ \E t \in DOMAIN tasks :
          /\ tasks[t].recurrence = "once"
          /\ tasks[t].completed = 0
          /\ MarkerOf(t) = date_isoformat(Today)
          /\ fires[t] = 1
          /\ clock <= DueOf(t) /\ DueOf(t) <= clock + 1

\* no 'daily' task of store T has been emitted more than once today
DailyAtMostOnceToday(T, emittedToday) ==
    \A t \in DOMAIN T : T[t].recurrence = "daily" => emittedToday[t] <= 1

\* C2: a 'daily' task is emitted by at most one check_due_tasks call per
\* calendar day; on a later day than its marker, a call with
\* now <= scheduled_today <= now+window emits it again and sets the marker
\* to that day.
C2_DailyOncePerDay ==
    /\ DailyAtMostOnceToday(tasks, dayFires)
    /\ [][/\ DailyAtMostOnceToday(tasks', dayFires')
          /\ CheckTaken =>
                \A w \in Windows : CheckStep(w) =>
                    \A t \in DOMAIN tasks :
                        (/\ tasks[t].completed = 0
                         /\ tasks[t].recurrence = "daily"
                         /\ DueOf(t) # None
                         /\ MarkerOf(t) # NULL
                         /\ MarkerOf(t)[1] < Today
                         /\ clock <= combine(Today, TimeOf(DueOf(t)))
                         /\ combine(Today, TimeOf(DueOf(t))) <= clock + w)
                        => /\ EventCount(upcoming', t) = 1
                           /\ tasks'[t].last_notified_date = date_isoformat(Today)]_vars

\* a 'daily' task notified on an earlier day has just been notified again
C2_Witness ==
    /\ lastOp.op = "check" /\ lastOp.a = 1
    /\ Today >= 1
    /\ \E t \in EventIds(upcoming) :
          /\ tasks[t].recurrence = "daily"
          /\ fires[t] = 2
          /\ dayFires[t] = 1
          /\ MarkerOf(t) = date_isoformat(Today)

\* C3: a task whose recurrence has been 'once' since its creation is emitted
\* at most one time in total, whatever operations are applied.
C3_OnceAtMostOnce ==
    \A t \in DOMAIN tasks : alwaysOnce[t] => fires[t] <= 1

\* check_due_tasks has just run right after an update_task that moved the due
\* timestamp of an already notified 'once' task into the window, and did not
\* emit it
C3_Witness ==
    /\ lastOp.op = "check" /\ lastOp.after = "redue" /\ lastOp.a = 1
    /\ lastOp.t \in DOMAIN tasks
    /\ alwaysOnce[lastOp.t]
    /\ tasks[lastOp.t].completed = 0
    /\ MarkerOf(lastOp.t) # NULL
    /\ clock <= DueOf(lastOp.t) /\ DueOf(lastOp.t) <= clock + 1
    /\ fires[lastOp.t] = 1
    /\ lastOp.t \notin EventIds(upcoming)

\* C4: a task whose completed flag is set when check_due_tasks runs is not in
\* its output and keeps its marker; the flag is only cleared by
\* set_task_completed(id, False).
C4_CompletedSkipped ==
    /\ [][CheckTaken => \A w \in Windows : CheckStep(w) =>
            \A t \in DOMAIN tasks :
                tasks[t].completed # 0
                => /\ t \notin EventIds(upcoming')
                   /\ tasks'[t].last_notified_date = MarkerOf(t)]_vars
    /\ [][\A t \in DOMAIN tasks \cap DOMAIN tasks' :
            (tasks[t].completed # 0 /\ tasks'[t].completed = 0)
            => set_task_completed(t, FALSE)]_vars

\* two check_due_tasks calls in a row have left out a completed task that is
\* in the window and was never notified
C4_Witness ==
    /\ lastOp.op = "check" /\ lastOp.after = "check" /\ lastOp.a = 1
    /\ \E t \in DOMAIN tasks :
          /\ tasks[t].completed # 0
          /\ tasks[t].recurrence = "once"
          /\ MarkerOf(t) = NULL
          /\ clock <= DueOf(t) /\ DueOf(t) <= clock + 1
          /\ t \notin EventIds(upcoming)

RankBag(T) ==
    [v \in {T[i].sort_index : i \in DOMAIN T} |->
        Cardinality({i \in DOMAIN T : T[i].sort_index = v})]

\* C5: swap_sort_index(a, b) on two distinct existing ids exchanges the two
\* ranks, leaves every other rank unchanged, and so preserves the multiset
\* of ranks, also when ranks are not unique.
C5_SwapExchangesTwoRanks ==
    [][SwapTaken => \A a \in DOMAIN tasks, b \in DOMAIN tasks : (a # b /\ SwapStep(a, b)) =>
          /\ DOMAIN tasks' = DOMAIN tasks
          /\ tasks'[a].sort_index = tasks[b].sort_index
          /\ tasks'[b].sort_index = tasks[a].sort_index
          /\ \A c \in DOMAIN tasks \ {a, b} : tasks'[c].sort_index = tasks[c].sort_index
          /\ RankBag(tasks') = RankBag(tasks)]_vars

\* two of three tasks have just exchanged different ranks, one of which a
\* third task holds as well
C5_Witness ==
    /\ lastOp.op = "swap"
    /\ {lastOp.a, lastOp.b} \subseteq DOMAIN tasks
    /\ Cardinality(DOMAIN tasks) = 3
    /\ prevIdx[lastOp.a] # prevIdx[lastOp.b]
    /\ tasks[lastOp.a].sort_index = prevIdx[lastOp.b]
    /\ tasks[lastOp.b].sort_index = prevIdx[lastOp.a]
    /\ \E c \in DOMAIN tasks \ {lastOp.a, lastOp.b} :
          tasks[c].sort_index = tasks[lastOp.a].sort_index

\* C6: get_tasks(order_by_custom=True) returns every task once, and for each
\* adjacent pair x, y: rank(x) < rank(y), or equal ranks and
\* priority(x) > priority(y), or equal ranks and priorities and
\* due(x) <= due(y); ranks [30,10,20] with equal priority and due come out
\* as [10,20,30].
C6_ManualOrder ==
    LET v == get_tasks(tasks, TRUE)
    IN  /\ Len(v) = Cardinality(DOMAIN tasks)
        /\ Range(v) = DOMAIN tasks
        /\ \A k \in 1..(Len(v) - 1) :
              LET x == tasks[v[k]]
                  y == tasks[v[k + 1]]
              IN  \/ x.sort_index < y.sort_index
                  \/ x.sort_index = y.sort_index /\ x.priority > y.priority
                  \/ /\ x.sort_index = y.sort_index
                     /\ x.priority = y.priority
                     /\ parse_iso_or_flex(x.due_iso) <= parse_iso_or_flex(y.due_iso)
        /\ \A a, b, c \in DOMAIN tasks :
              (/\ DOMAIN tasks = {a, b, c}
               /\ tasks[a].sort_index = NowMillis(2)
               /\ tasks[b].sort_index = NowMillis(0)
               /\ tasks[c].sort_index = NowMillis(1)
               /\ tasks[a].priority = tasks[b].priority
               /\ tasks[b].priority = tasks[c].priority
               /\ tasks[a].due_iso = tasks[b].due_iso
               /\ tasks[b].due_iso = tasks[c].due_iso)
              => v = <<b, c, a>>

\* the three tasks, in rowid order, hold ranks 30, 10, 20 (the stamps of
\* ticks 2, 0 and 1) and have the same priority and due timestamp
C6_Witness ==
    /\ DOMAIN tasks = {1, 2, 3}
    /\ tasks[1].sort_index = NowMillis(2)
    /\ tasks[2].sort_index = NowMillis(0)
    /\ tasks[3].sort_index = NowMillis(1)
    /\ tasks[1].priority = tasks[2].priority /\ tasks[2].priority = tasks[3].priority
    /\ tasks[1].due_iso = tasks[2].due_iso /\ tasks[2].due_iso = tasks[3].due_iso
    /\ get_tasks(tasks, TRUE) = <<2, 3, 1>>

\* the PriorityFirst view of store T holds every task once, by priority
\* descending, then due timestamp ascending
PriorityOrdered(T) ==
    LET v == get_tasks(T, FALSE)
    IN  /\ Len(v) = Cardinality(DOMAIN T)
        /\ Range(v) = DOMAIN T
        /\ \A k \in 1..(Len(v) - 1) :
              LET x == T[v[k]]
                  y == T[v[k + 1]]
              IN  \/ x.priority > y.priority
                  \/ /\ x.priority = y.priority
                     /\ parse_iso_or_flex(x.due_iso) <= parse_iso_or_flex(y.due_iso)

\* C7: get_tasks(order_by_custom=False) orders by priority descending, then
\* due timestamp ascending, and is the same after any swap_sort_index call
\* as it was before the call.
C7_PriorityFirstIgnoresRank ==
    /\ PriorityOrdered(tasks)
    /\ lastOp.op = "swap" => get_tasks(tasks, FALSE) = get_tasks(prevTasks, FALSE)

\* a swap has just changed the ranks and the Manual view of tasks with equal
\* priority and due timestamp
C7_Witness ==
    /\ lastOp.op = "swap"
    /\ {lastOp.a, lastOp.b} \subseteq DOMAIN tasks
    /\ prevIdx # SortIndexOf(tasks)
    /\ tasks[lastOp.a].priority = tasks[lastOp.b].priority
    /\ tasks[lastOp.a].due_iso = tasks[lastOp.b].due_iso
    /\ get_tasks(tasks, TRUE) # get_tasks(prevTasks, TRUE)

\* C8: swap_sort_index(a, b) with a or b not the id of an existing task
\* changes no field of any task and does not raise.
C8_SwapMissingIdNoOp ==
    [][SwapTaken => \A a \in 1..nextId, b \in 1..nextId :
          ((a \notin DOMAIN tasks \/ b \notin DOMAIN tasks) /\ SwapStep(a, b))
          => tasks' = tasks /\ ~raised']_vars

\* a swap of an existing task with the id of a deleted one has just returned
C8_Witness ==
    /\ lastOp.op = "swap"
    /\ ~raised
    /\ \E x, y \in {lastOp.a, lastOp.b} :
          /\ x \in DOMAIN tasks
          /\ y \notin DOMAIN tasks
          /\ y < nextId
    /\ prevTasks = tasks

\* C9: swap_sort_index(a, a) on an existing id leaves the whole store
\* unchanged and does not raise.
C9_SelfSwapNoOp ==
    [][SwapTaken => \A a \in DOMAIN tasks :
          SwapStep(a, a) => tasks' = tasks /\ ~raised']_vars

\* a swap of an existing task with itself has just returned
C9_Witness ==
    /\ lastOp.op = "swap"
    /\ lastOp.a = lastOp.b
    /\ lastOp.a \in DOMAIN tasks
    /\ Cardinality(DOMAIN tasks) >= 2
    /\ ~raised
    /\ prevTasks = tasks

\* C10: swap_sort_index(a, b) applied twice in a row on existing tasks
\* restores every rank, the whole store and the Manual view.
C10_SwapInvolution ==
    [][SwapTaken => \A a \in DOMAIN tasks, b \in DOMAIN tasks :
          (/\ lastOp.op = "swap"
           /\ lastOp.a = Min(a, b)
           /\ lastOp.b = Max(a, b)
           /\ SwapStep(a, b))
          => /\ SortIndexOf(tasks') = prevIdx
             /\ tasks' = prevTasks
             /\ get_tasks(tasks', TRUE) = get_tasks(prevTasks, TRUE)]_vars

\* the same two tasks, of different ranks, have just been swapped twice in a row
C10_Witness ==
    /\ lastOp.op = "swap"
    /\ lastOp.after = "swap"
    /\ lastOp.a # lastOp.b
    /\ {lastOp.a, lastOp.b} \subseteq DOMAIN tasks
    /\ tasks[lastOp.a].sort_index # tasks[lastOp.b].sort_index
    /\ tasks[lastOp.a].sort_index = prevIdx[lastOp.b]

\* C11: every step other than check_due_tasks (add_task, update_task,
\* set_task_completed in both directions, swap_sort_index, delete_task of
\* another task, the passing of time) leaves the marker of every task that
\* exists before and after it unchanged.
C11_MarkerOnlyByCheck ==
    [][~CheckTaken =>
          \A t \in DOMAIN tasks \cap DOMAIN tasks' :
              tasks'[t].last_notified_date = MarkerOf(t)]_vars

\* an edit has just moved the due timestamp of a notified and completed task,
\* next to a second task, and the marker is still set
C11_Witness ==
    /\ lastOp.op = "update" /\ lastOp.b = 1
    /\ lastOp.a \in DOMAIN tasks
    /\ Cardinality(DOMAIN tasks) = 2
    /\ tasks[lastOp.a].completed # 0
    /\ MarkerOf(lastOp.a) = date_isoformat(Today)

\* some update_task call is the step
UpdateTaken == lastOp'.op = "update" /\ clock' = clock

\* no two tasks of store T hold the same rank
RanksDistinct(T) ==
    \A x \in DOMAIN T, y \in DOMAIN T : x # y => T[x].sort_index # T[y].sort_index

\* C12: update_task writes the title, due timestamp, recurrence and priority
\* of the identified task and nothing else: its rank, completed flag and
\* marker and every other task are unchanged, no task appears or disappears,
\* and when no two tasks share a rank the Manual view is the same as before.
C12_UpdateFrame ==
    [][UpdateTaken =>
          \A task_id \in DOMAIN tasks, due_dt \in 0..MaxFrameClock,
             recurrence \in Recurrences, priority \in Priorities :
              update_task(task_id, "B", due_dt, recurrence, priority) =>
                  /\ DOMAIN tasks' = DOMAIN tasks
                  /\ tasks'[task_id] =
                        [tasks[task_id] EXCEPT !.title = "B",
                                               !.due_iso = isoformat(due_dt),
                                               !.recurrence = recurrence,
                                               !.priority = priority]
                  /\ tasks'[task_id].sort_index = tasks[task_id].sort_index
                  /\ tasks'[task_id].completed = tasks[task_id].completed
                  /\ \A o \in DOMAIN tasks \ {task_id} : tasks'[o] = tasks[o]
                  /\ RanksDistinct(tasks) =>
                        get_tasks(tasks', TRUE) = get_tasks(tasks, TRUE)]_vars

\* an edit has just lowered the priority and moved the due timestamp of the
\* completed task that is first of two in the Manual view; it is still first
\* there and last in the PriorityFirst view
C12_Witness ==
    /\ lastOp.op = "update" /\ lastOp.b = 1
    /\ lastOp.a \in DOMAIN tasks
    /\ Cardinality(DOMAIN tasks) = 2
    /\ RanksDistinct(tasks)
    /\ tasks[lastOp.a].title = "B"
    /\ tasks[lastOp.a].priority = 1
    /\ tasks[lastOp.a].completed # 0
    /\ \E o \in DOMAIN tasks \ {lastOp.a} :
          /\ tasks[o].priority = 5
          /\ get_tasks(tasks, TRUE) = <<lastOp.a, o>>
          /\ get_tasks(tasks, FALSE) = <<o, lastOp.a>>

\* call p takes one round of its second loop
NotifyTaken(p) ==
    /\ evals[p].pc = "notify"
    /\ evals'[p].pc = "notify"
    /\ evals'[p].j = evals[p].j + 1

\* C13: in every round of the second loop, whatever the notifier does
\* (shown, absent, raising internally), the flagged task's marker is set to
\* the current date and the call goes on to the next flagged task with its
\* list of events intact; the call returns exactly the flagged tasks, each
\* of them notified.
C13_MarkedWhateverDelivery ==
    /\ [][\A p \in Calls : NotifyTaken(p) =>
            \A plyer \in PlyerOutcomes : NotifyAndMark(p, plyer) =>
                LET id == evals[p].upcoming[evals[p].j].task_id
                IN  /\ id \in DOMAIN tasks =>
                          tasks'[id].last_notified_date = date_isoformat(Today)
                    /\ evals'[p].upcoming = evals[p].upcoming]_vars
    /\ [][\A p \in Calls : (evals[p].pc = "notify" /\ evals'[p].pc # "notify") =>
            /\ evals'[p].pc = "done"
            /\ upcoming' = evals[p].upcoming
            /\ Len(evals[p].outcomes) = Len(evals[p].upcoming)]_vars

\* a call has returned two events; the notifier raised for the first and
\* showed the second, and both tasks are marked
C13_Witness ==
    /\ evals[1].pc = "done"
    /\ Len(upcoming) = 2
    /\ upcoming = evals[1].upcoming
    /\ evals[1].outcomes = <<"raises", "shown">>
    /\ \A k \in 1..2 :
          /\ upcoming[k].task_id \in DOMAIN tasks
          /\ MarkerOf(upcoming[k].task_id) # NULL
          /\ fires[upcoming[k].task_id] = 1

\* the rowids of a sequence of events, in order
EventSeqIds(events) == [k \in 1..Len(events) |-> events[k].task_id]

\* C14: when check_due_tasks runs on a store holding a task whose due text
\* parses in no format, the call does not raise, the task is not in the
\* output and is left as it was, and the events and the resulting rows of
\* all other tasks are those of the same call on the store without that task.
C14_UnparseableSkipped ==
    [][CheckTaken => \A w \in Windows : CheckStep(w) =>
          \A t \in DOMAIN tasks :
              DueOf(t) = None =>
                  LET T0 == DeleteRow(tasks, t)
                      ids0 == DueIds(T0, clock, w, Today)
                      T1 == MarkNotified(T0, ids0, Today)
                  IN  /\ ~raised'
                      /\ t \notin EventIds(upcoming')
                      /\ tasks'[t] = tasks[t]
                      /\ EventSeqIds(upcoming') = ids0
                      /\ \A o \in DOMAIN T0 : tasks'[o] = T1[o]]_vars

\* check_due_tasks has just run on a store with an incomplete, unmarked
\* 'once' task whose due text is in no known format and a second task that
\* was notified
C14_Witness ==
    /\ lastOp.op = "check" /\ lastOp.a = 1
    /\ ~raised
    /\ \E t \in DOMAIN tasks, o \in DOMAIN tasks :
          /\ tasks[t].due_iso = Garbage
          /\ tasks[t].recurrence = "once"
          /\ tasks[t].completed = 0
          /\ MarkerOf(t) = NULL
          /\ EventSeqIds(upcoming) = <<o>>
          /\ MarkerOf(o) = date_isoformat(Today)
          /\ fires[o] = 1

\* C15: a check_due_tasks call creates and deletes no task and changes no
\* field of any task except the marker, which changes for exactly the tasks
\* in the returned sequence (to today's date).
C15_CheckFrame ==
    [][CheckTaken => \A w \in Windows : CheckStep(w) =>
          /\ DOMAIN tasks' = DOMAIN tasks
          /\ \A t \in DOMAIN tasks :
                /\ tasks'[t] =
                      [tasks[t] EXCEPT !.last_notified_date =
                          IF t \in EventIds(upcoming')
                          THEN date_isoformat(Today) ELSE MarkerOf(t)]
                /\ (tasks'[t].last_notified_date # MarkerOf(t))
                       <=> (t \in EventIds(upcoming'))]_vars

\* check_due_tasks has just notified one of two tasks; the other one, edited,
\* completed and never notified, is as it was
C15_Witness ==
    /\ lastOp.op = "check" /\ lastOp.a = 1
    /\ \E t \in DOMAIN tasks, o \in DOMAIN tasks :
          /\ EventSeqIds(upcoming) = <<t>>
          /\ MarkerOf(t) = date_isoformat(Today)
          /\ o # t
          /\ MarkerOf(o) = NULL
          /\ tasks[o].title = "B"
          /\ tasks[o].completed # 0
          /\ tasks[o].sort_index # tasks[t].sort_index

\* the last rowid of the Manual view of store T (0 for an empty store)
LastManual(T) ==
    LET v == get_tasks(T, TRUE)
    IN  IF Len(v) = 0 THEN 0 ELSE v[Len(v)]

\* C16: the task created by add_task is the last element of the Manual view
\* right after its creation, and the most recently created task, once last,
\* is still last after any step that is neither an add_task nor a
\* swap_sort_index involving it and that leaves it in the store.
C16_NewTaskLast ==
    [][/\ nextId' = nextId + 1 => LastManual(tasks') = nextId
       /\ (/\ nextId' = nextId
           /\ (nextId - 1) \in DOMAIN tasks \cap DOMAIN tasks'
           /\ LastManual(tasks) = nextId - 1
           /\ ~(SwapTaken /\ (nextId - 1) \in {lastOp'.a, lastOp'.b}))
          => LastManual(tasks') = nextId - 1]_vars

\* C17: check_due_tasks includes an incomplete 'once' task with a parseable
\* due timestamp if and only if its marker is unset and
\* now <= due <= now+window, both ends included; a task due before now or
\* after now+window is left out and its marker is left as it was.
C17_OnceIffInWindow ==
    [][CheckTaken => \A w \in Windows : CheckStep(w) =>
          \A t \in DOMAIN tasks :
              (/\ tasks[t].completed = 0
               /\ tasks[t].recurrence = "once"
               /\ DueOf(t) # None)
              => /\ (t \in EventIds(upcoming'))
                        <=> (/\ MarkerOf(t) = NULL
                             /\ clock <= DueOf(t)
                             /\ DueOf(t) <= clock + w)
                 /\ (DueOf(t) < clock \/ DueOf(t) > clock + w)
                        => /\ t \notin EventIds(upcoming')
                           /\ tasks'[t].last_notified_date = MarkerOf(t)]_vars

\* check_due_tasks has just notified two 'once' tasks, one due exactly at
\* now and one due exactly at the end of the widest window
C17_Witness ==
    /\ lastOp.op = "check" /\ lastOp.a = 1
    /\ \E t \in EventIds(upcoming), o \in EventIds(upcoming) :
          /\ tasks[t].recurrence = "once"
          /\ tasks[o].recurrence = "once"
          /\ DueOf(t) = clock
          /\ DueOf(o) = clock + MaxWindow
          /\ fires[t] = 1 /\ fires[o] = 1

\* the rowids of the events call p has appended so far
CallEventIds(p) == EventIds(evals[p].upcoming)

\* rows x and y of a fetched list are incomplete 'daily' rows with parseable
\* due texts of the same time of day and with the same marker
SameDailySlot(x, y) ==
    /\ x.row.recurrence = "daily" /\ y.row.recurrence = "daily"
    /\ x.row.completed = 0 /\ y.row.completed = 0
    /\ parse_iso_or_flex(x.row.due_iso) # None
    /\ parse_iso_or_flex(y.row.due_iso) # None
    /\ TimeOf(parse_iso_or_flex(x.row.due_iso)) = TimeOf(parse_iso_or_flex(y.row.due_iso))
    /\ x.row.last_notified_date = y.row.last_notified_date

\* C18: two incomplete 'daily' tasks with the same time of day and the same
\* marker are both included or both excluded by a check_due_tasks call,
\* whatever the calendar days of their stored due timestamps.
C18_DailyDateIrrelevant ==
    \A p \in Calls :
        evals[p].pc = "done" =>
            \A k \in 1..Len(evals[p].rows), m \in 1..Len(evals[p].rows) :
                SameDailySlot(evals[p].rows[k], evals[p].rows[m])
                => (evals[p].rows[k].task_id \in CallEventIds(p)
                        <=> evals[p].rows[m].task_id \in CallEventIds(p))

\* the calendar date of the now captured at the start of call p
CapturedDate(p) == DateOf(evals[p].now)

\* C19: within one check_due_tasks call, the date that anchors a 'daily'
\* task, the date compared with the marker and the date written as the new
\* marker are all the calendar date of the now captured at the start of the
\* call, also when the host clock passes midnight during the call.
C19_SingleCapturedInstant ==
    [][\A p \in Calls :
          /\ (evals[p].pc = "scan" /\ evals'[p].pc = "compare") =>
                evals'[p].scheduled_today =
                    combine(CapturedDate(p),
                            TimeOf(parse_iso_or_flex(evals[p].rows[evals[p].i].row.due_iso)))
          /\ (evals[p].pc = "compare" /\ evals'[p].pc # "compare") =>
                (Len(evals'[p].upcoming) > Len(evals[p].upcoming)
                    <=> daily_due(evals[p].rows[evals[p].i].row, evals[p].now,
                                  evals[p].window_end, evals[p].scheduled_today,
                                  CapturedDate(p)))
          /\ NotifyTaken(p) =>
                LET id == evals[p].upcoming[evals[p].j].task_id
                IN  id \in DOMAIN tasks' =>
                        tasks'[id].last_notified_date = date_isoformat(CapturedDate(p))]_vars

\* the rowids call p has notified so far
NotifiedBy(p) ==
    {evals[p].upcoming[k].task_id :
        k \in 1..Min(evals[p].j - 1, Len(evals[p].upcoming))}

\* call p fetched task t with its marker unset
ReadUnmarked(p, t) ==
    \E k \in 1..Len(evals[p].rows) :
        /\ evals[p].rows[k].task_id = t
        /\ evals[p].rows[k].row.last_notified_date = NULL

\* one of the calls p and q fetched its rows while the other was running
Overlapped(p, q) == q \in evals[p].inflight \/ p \in evals[q].inflight

\* C20: a task that has always been 'once' is notified twice only by two
\* check_due_tasks calls that ran concurrently, both having fetched the task
\* with its marker unset; calls that run one after the other never notify it
\* twice.
C20_DoubleFireOnlyByRace ==
    \A t \in DOMAIN tasks :
        (alwaysOnce[t] /\ fires[t] >= 2) =>
            \E p \in Calls, q \in Calls :
                /\ p # q
                /\ t \in NotifiedBy(p) /\ t \in NotifiedBy(q)
                /\ ReadUnmarked(p, t) /\ ReadUnmarked(q, t)
                /\ Overlapped(p, q)

\* two calls have returned, each with an event for the same 'once' task
C20_Witness ==
    \E p \in Calls, q \in Calls, t \in DOMAIN tasks :
        /\ p # q
        /\ evals[p].pc = "done" /\ evals[q].pc = "done"
        /\ tasks[t].recurrence = "once"
        /\ alwaysOnce[t]
        /\ fires[t] = 2
        /\ t \in CallEventIds(p) /\ t \in CallEventIds(q)

\* C21: the up button of the task at position p > first of the Manual view
\* leaves that task at position p-1 and its former predecessor at position
\* p; the down button of the task at position p < last leaves it at
\* position p+1 and its former successor at position p.
C21_MoveChangesPlaces ==
    [][SwapTaken => \A t \in DOMAIN tasks :
          LET v == get_tasks(tasks, TRUE)
              p == IndexOf(v, t)
          IN  /\ move_up(t) =>
                    /\ IndexOf(get_tasks(tasks', TRUE), t) = p - 1
                    /\ IndexOf(get_tasks(tasks', TRUE), v[p - 1]) = p
              /\ move_down(t) =>
                    /\ IndexOf(get_tasks(tasks', TRUE), t) = p + 1
                    /\ IndexOf(get_tasks(tasks', TRUE), v[p + 1]) = p]_vars

\* markers are unset or the text of a date up to today, and set only on tasks
\* an event has been returned for
MarkersSound ==
    \A t \in DOMAIN tasks :
        /\ MarkerOf(t) = NULL
              \/ (Len(MarkerOf(t)) = 1 /\ MarkerOf(t)[1] <= Today)
        /\ MarkerOf(t) # NULL => fires[t] >= 1

\* C22: every task's marker is unset or a calendar date not later than the
\* current date, a task has a set marker only if an event has been returned
\* for it, and the task add_task has just created has an unset marker.
C22_MarkerNotInFuture ==
    /\ MarkersSound
    /\ lastOp.op = "add" => MarkerOf(nextId - 1) = NULL

\* a task notified on an earlier day still carries that day as its marker
C22_Witness ==
    \E t \in DOMAIN tasks :
        /\ MarkerOf(t) # NULL
        /\ MarkerOf(t)[1] < Today
        /\ fires[t] = 1

\* the ids of the rows a swap_sort_index call fetched
SwapIds(p) == {swaps[p].vals[k][1] : k \in 1..Len(swaps[p].vals)}

\* C23: once two swap_sort_index calls that share one task, swap(a, b) and
\* swap(b, c), have both returned, whatever the order their statements ran
\* in, the multiset of ranks is the one of the table the first call read.
C23_ConcurrentSwapsKeepRanks ==
    \A p \in Calls, q \in Calls :
        ( /\ p # q
          /\ swaps[p].pc = "done" /\ swaps[q].pc = "done"
          /\ Cardinality(SwapIds(p)) = 2 /\ Cardinality(SwapIds(q)) = 2
          /\ Cardinality(SwapIds(p) \cap SwapIds(q)) = 1 )
        => RankBag(tasks) = RankBag(prevTasks)

====
